---- MODULE Spec2Model ----
(***************************************************************************)
(* Model of src/analysis.py: the attribute parsers parse_voltage and       *)
(* parse_capacity, and the batch pipeline of main(): per-region feature    *)
(* queries, union and voltage filter, nearest-substation join, per-        *)
(* substation aggregation, link construction and export.                   *)
(*                                                                         *)
(* Representation.                                                         *)
(*  - A Python string is a sequence of one-character strings; the absent   *)
(*    tag (None / NaN in a tag column) is the tuple NoneStr.               *)
(*  - An absent number (None, NaN) in a numeric column is NaN; every       *)
(*    number the program can produce in those columns is >= 0.             *)
(*  - A float is an exact fraction [num, den] whose den is a power of ten. *)
(*  - A geometry is an already reduced point <<x, y>> of the metric        *)
(*    projection; a distance is held as its square (integer arithmetic is  *)
(*    exact and the square root is strictly increasing, so "nearest" and   *)
(*    "equidistant" are decided exactly as on the distances themselves).   *)
(*  - A data frame is the sequence of its rows, each row a record.         *)
(***************************************************************************)
EXTENDS Integers, Sequences, FiniteSets, TLC

VARIABLES
    pc,               \* position of the run
    arg,              \* argument of the parser under test
    ret,              \* value returned (or exception raised) by the parser
    osm,              \* the features the feature-query service holds
    region,           \* index of the next Bundesland to query (loop of line 60)
    substations_list, \* line 58
    generators_list,  \* line 59
    substations,      \* lines 74-77, then 96-107
    generators,       \* lines 80-82, then 85-90
    breakdown_cols,   \* line 102
    lines             \* lines 111-113

vars == <<pc, arg, ret, osm, region, substations_list, generators_list,
          substations, generators, breakdown_cols, lines>>

\* ---------------------------------------------------------------- bounds
MaxVoltLen == 4
MaxCapLen == 3
MaxCoord == 2

\* ------------------------------------------------------------- constants
KiloLimit == 1000
KiloFactor == 1000
KwDivisor == 1000
VoltageThreshold == 110000

NoneStr == <<"None">>
None == "None"
NaN == -1

\* ------------------------------------------------------- string helpers
Str(s) == [i \in 1..Len(s) |-> s[i]]

DigitChars == <<"0", "1", "2", "3", "4", "5", "6", "7", "8", "9">>

IsDigit(c) == \E i \in 1..10 : DigitChars[i] = c

\* the character classes \d and [\d.]
DigitClass == {DigitChars[i] : i \in 1..10}
CapacityClass == DigitClass \cup {"."}

DigitVal(c) == (CHOOSE i \in 1..10 : DigitChars[i] = c) - 1

\* str.lower() on the letters that occur in the inputs
lower(c) == CASE c = "K" -> "k"
              [] c = "W" -> "w"
              [] c = "M" -> "m"
              [] OTHER -> c

RECURSIVE Pow10(_)
Pow10(n) == IF n = 0 THEN 1 ELSE 10 * Pow10(n - 1)

\* int(m.group()) on a run of digits
RECURSIVE int(_)
int(ds) == IF ds = <<>> THEN 0
           ELSE 10 * int(SubSeq(ds, 1, Len(ds) - 1)) + DigitVal(ds[Len(ds)])

\* str.split(sep): the segments between the separators, empty ones included
RECURSIVE split(_, _)
split(s, sep) ==
    IF \A i \in 1..Len(s) : s[i] # sep THEN <<s>>
    ELSE LET p == CHOOSE i \in 1..Len(s) :
                     s[i] = sep /\ \A j \in 1..(i - 1) : s[j] # sep
         IN  <<SubSeq(s, 1, p - 1)>> \o split(SubSeq(s, p + 1, Len(s)), sep)

\* re.search(r"[<class>]+", s): the leftmost, longest run of characters of the
\* class; NoneStr when there is no match
re_search(class, s) ==
    IF \A i \in 1..Len(s) : s[i] \notin class THEN NoneStr
    ELSE LET b == CHOOSE i \in 1..Len(s) :
                     s[i] \in class /\ \A j \in 1..(i - 1) : s[j] \notin class
             e == CHOOSE i \in b..Len(s) :
                     /\ \A j \in b..i : s[j] \in class
                     /\ (i = Len(s) \/ s[i + 1] \notin class)
         IN  SubSeq(s, b, e)

RECURSIVE max(_)
max(values) ==
    IF Len(values) = 1 THEN values[1]
    ELSE LET m == max(Tail(values))
         IN  IF values[1] >= m THEN values[1] ELSE m

\* ------------------------------------------------------- parse_voltage
\* lines 32-33
ScaleAlways(v) == v * KiloFactor
ToVolts(v) == IF v < KiloLimit THEN v * KiloFactor ELSE v

\* the loop of lines 27-34: the values list after all parts
RECURSIVE VoltageValues(_)
VoltageValues(parts) ==
    IF parts = <<>> THEN <<>>
    ELSE LET m == re_search(DigitClass, parts[1])
         IN  (IF m # NoneStr THEN <<ToVolts(int(m))>> ELSE <<>>)
                 \o VoltageValues(Tail(parts))

parse_voltage(voltage_str) ==
    IF voltage_str = NoneStr \/ voltage_str = <<>> THEN NaN
    ELSE LET values == VoltageValues(split(voltage_str, ";"))
         IN  IF values # <<>> THEN max(values) ELSE NaN

\* ------------------------------------------------------ parse_capacity

Returned(n, d) == [exc |-> "none", num |-> n, den |-> d]
Raised(e) == [exc |-> e, num |-> 0, den |-> 1]

\* float(m.group()) on a run of digits and dots: ValueError unless the run
\* holds at least one digit and at most one dot
float(tok) ==
    LET dots   == {i \in 1..Len(tok) : tok[i] = "."}
        digits == SelectSeq(tok, IsDigit)
    IN  IF Cardinality(dots) > 1 \/ digits = <<>> THEN Raised("ValueError")
        ELSE LET frac == IF dots = {} THEN 0
                         ELSE Len(tok) - (CHOOSE i \in dots : TRUE)
             IN  Returned(int(digits), Pow10(frac))

\* "kw" in str(value).lower()
HasKw(s) == \E i \in 1..(Len(s) - 1) : lower(s[i]) = "k" /\ lower(s[i + 1]) = "w"

parse_capacity(value) ==
    IF value = NoneStr \/ value = <<>> THEN Returned(0, 1)
    ELSE LET m == re_search(CapacityClass, value)
         IN  IF m # NoneStr
             THEN LET cap == float(m)
                  IN  IF cap.exc # "none" THEN cap
                      ELSE IF HasKw(value)
                           THEN Returned(cap.num, cap.den * KwDivisor)
                           ELSE cap
             ELSE Returned(0, 1)

\* --------------------------------------------- inputs of the parsers
RECURSIVE StringsUpTo(_, _)
StringsUpTo(chars, n) ==
    IF n = 0 THEN {<<>>}
    ELSE LET shorter == StringsUpTo(chars, n - 1)
         IN  shorter \cup {Append(s, c) : s \in shorter, c \in chars}

VoltChars == {"0", "1", "9", ";", "k"}
VoltExamples == {Str(<<"2", "0">>),
                 Str(<<"1", "1", "0", "0", "0", "0">>),
                 Str(<<"2", "0", ";", "1", "1", "0">>),
                 Str(<<"a", "b", "c">>),
                 Str(<<"1", "1", "0", " ", "k", "V", ";", "3", "8", "0">>)}
VoltInputs == StringsUpTo(VoltChars, MaxVoltLen) \cup VoltExamples \cup {NoneStr}

CapChars == {"5", "2", ".", "k", "W", "n"}
CapExamples == {Str(<<"2", ".", "5", " ", "M", "W">>),
                Str(<<"5", "0", "0", " ", "k", "W">>),
                Str(<<"n", "/", "a">>),
                Str(<<"n", ".", "a", ".">>),
                Str(<<"a", "p", "p", "r", "o", "x", ".", " ", "5", " ", "M", "W">>),
                Str(<<"1", ".", "2", ".", "3">>)}
CapInputs == StringsUpTo(CapChars, MaxCapLen) \cup CapExamples \cup {NoneStr}

Idle ==
    /\ osm = <<>>
    /\ region = 0
    /\ substations_list = <<>>
    /\ generators_list = <<>>
    /\ substations = <<>>
    /\ generators = <<>>
    /\ breakdown_cols = {}
    /\ lines = <<>>

pipelineVars == <<osm, region, substations_list, generators_list,
                  substations, generators, breakdown_cols, lines>>

InitVoltage ==
    /\ pc = "call_parse_voltage"
    /\ arg \in VoltInputs
    /\ ret = NaN
    /\ Idle

CallParseVoltage ==
    /\ pc = "call_parse_voltage"
    /\ ret' = parse_voltage(arg)
    /\ pc' = "returned"
    /\ UNCHANGED <<arg, pipelineVars>>

NextVoltage == CallParseVoltage

SpecVoltage == InitVoltage /\ [][NextVoltage]_vars

InitCapacity ==
    /\ pc = "call_parse_capacity"
    /\ arg \in CapInputs
    /\ ret = Returned(0, 1)
    /\ Idle

CallParseCapacity ==
    /\ pc = "call_parse_capacity"
    /\ ret' = parse_capacity(arg)
    /\ pc' = IF ret'.exc = "none" THEN "returned" ELSE "raised"
    /\ UNCHANGED <<arg, pipelineVars>>

NextCapacity == CallParseCapacity

SpecCapacity == InitCapacity /\ [][NextCapacity]_vars


\* ====================================================== the pipeline
\* line 55: the Bundeslaender, in the order download_geojson_data returns them
bundeslaender == <<"Brandenburg", "Sachsen">>

SubstationIds == {101, 102}
GeneratorIds == {1, 2}

Points == (0..MaxCoord) \X (0..1)

VoltageTags == {Str(<<"1", "1", "0">>), Str(<<"2", "0">>), NoneStr}
OutputTags == {Str(<<"5", "0", "0", " ", "k", "W">>),
               Str(<<"2", ".", "5", " ", "M", "W">>),
               NoneStr}
Methods == {"wind_turbine", "photovoltaic", None}

\* The features of the two Bundeslaender. A substation on the border lies in
\* both region polygons; each polygon holds at least one substation and one
\* generator (an empty response makes the feature query itself fail).
SubstationFeatures(id) ==
    [id : {id},
     geometry : {IF id = 101 THEN <<0, 0>> ELSE <<2, 0>>},
     voltage : IF id = 101 THEN VoltageTags ELSE VoltageTags \ {NoneStr},
     regions : IF id = 101 THEN {{"Brandenburg"}, {"Brandenburg", "Sachsen"}}
               ELSE {{"Sachsen"}, {"Brandenburg", "Sachsen"}}]

GeneratorFeatures(id) ==
    [id : {id},
     geometry : IF id = 1 THEN Points ELSE {p \in Points : p[2] = 0},
     output : IF id = 1 THEN OutputTags ELSE OutputTags \ {NoneStr},
     method : IF id = 1 THEN Methods ELSE Methods \ {"photovoltaic"},
     regions : {IF id = 1 THEN {"Brandenburg"} ELSE {"Sachsen"}}]

\* ------------------------------------------------------ frame helpers
RECURSIVE concat(_)
concat(frames) == IF frames = <<>> THEN <<>> ELSE frames[1] \o concat(Tail(frames))

\* the rows of a frame whose positions are in idx, in frame order
Take(frame, idx) ==
    LET pos == SelectSeq([i \in 1..Len(frame) |-> i], LAMBDA i : i \in idx)
    IN  [k \in 1..Len(pos) |-> frame[pos[k]]]

RECURSIVE SortedIds(_)
SortedIds(ids) ==
    IF ids = {} THEN <<>>
    ELSE LET lo == CHOOSE i \in ids : \A j \in ids : i <= j
         IN  <<lo>> \o SortedIds(ids \ {lo})

\* ox.features_from_polygon(...).reset_index(): the features of one kind
\* inside a region polygon, one row each, in id order
features_from_polygon(name, feats) ==
    LET ids == SortedIds({id \in DOMAIN feats : name \in feats[id].regions})
    IN  [k \in 1..Len(ids) |-> feats[ids[k]]]

\* ------------------------------------------------- fractions (floats)
FracAdd(a, b) ==
    LET d == IF a.den >= b.den THEN a.den ELSE b.den
    IN  [num |-> a.num * (d \div a.den) + b.num * (d \div b.den), den |-> d]

FracEq(a, b) == a.num * b.den = b.num * a.den

RECURSIVE FracSum(_)
FracSum(fs) == IF fs = <<>> THEN [num |-> 0, den |-> 1]
               ELSE FracAdd(fs[1], FracSum(Tail(fs)))

\* ------------------------------------------------------------ Init
Init ==
    /\ pc = "query"
    /\ arg = <<>>
    /\ ret = NaN
    /\ osm \in {[substation |-> (101 :> a @@ 102 :> b),
                  generator |-> (1 :> c @@ 2 :> d)] :
                    a \in SubstationFeatures(101), b \in SubstationFeatures(102),
                    c \in GeneratorFeatures(1), d \in GeneratorFeatures(2)}
    /\ region = 1
    /\ substations_list = <<>>
    /\ generators_list = <<>>
    /\ substations = <<>>
    /\ generators = <<>>
    /\ breakdown_cols = {}
    /\ lines = <<>>

\* ------------------------------------------- lines 60-71: one region
SubstationRow(f, name) ==
    [id |-> f.id, geometry |-> f.geometry, bundesland |-> name,
     voltage |-> parse_voltage(f.voltage)]

GeneratorRow(f, name) ==
    LET c == parse_capacity(f.output)
    IN  [id |-> f.id, geometry |-> f.geometry, bundesland |-> name,
         method |-> f.method, capacity_mw |-> [num |-> c.num, den |-> c.den]]

QueryRegion ==
    /\ pc = "query"
    /\ LET name == bundeslaender[region]
           sub  == features_from_polygon(name, osm.substation)
           gen  == features_from_polygon(name, osm.generator)
       IN  IF \E k \in 1..Len(gen) : parse_capacity(gen[k].output).exc # "none"
           THEN /\ pc' = "failed"
                /\ substations_list' =
                       Append(substations_list,
                              [k \in 1..Len(sub) |-> SubstationRow(sub[k], name)])
                /\ UNCHANGED <<generators_list, region>>
           ELSE /\ substations_list' =
                       Append(substations_list,
                              [k \in 1..Len(sub) |-> SubstationRow(sub[k], name)])
                /\ generators_list' =
                       Append(generators_list,
                              [k \in 1..Len(gen) |-> GeneratorRow(gen[k], name)])
                /\ region' = region + 1
                /\ pc' = IF region = Len(bundeslaender) THEN "union_substations"
                         ELSE "query"
    /\ UNCHANGED <<arg, ret, osm, substations, generators, breakdown_cols, lines>>

\* ------------------------------------------------------ lines 74-77
StrictlyAbove(row) == row.voltage # NaN /\ row.voltage > VoltageThreshold
\* line 75: NaN >= 110000 is False
HighVoltage(row) == row.voltage # NaN /\ row.voltage >= VoltageThreshold

UnionSubstations ==
    /\ pc = "union_substations"
    /\ substations' = SelectSeq(concat(substations_list), HighVoltage)
    /\ pc' = "union_generators"
    /\ UNCHANGED <<arg, ret, osm, region, substations_list, generators_list,
                   generators, breakdown_cols, lines>>

\* ------------------------------------------------------ lines 80-82
UnionGenerators ==
    /\ pc = "union_generators"
    /\ generators' = concat(generators_list)
    /\ pc' = "match"
    /\ UNCHANGED <<arg, ret, osm, region, substations_list, generators_list,
                   substations, breakdown_cols, lines>>


\* ------------------------------------------------------ lines 85-90
\* squared Euclidean distance of two points of the metric projection
Dist2(p, q) == (p[1] - q[1]) * (p[1] - q[1]) + (p[2] - q[2]) * (p[2] - q[2])

Matched(g, s, d) ==
    [id |-> g.id, geometry |-> g.geometry, bundesland |-> g.bundesland,
     method |-> g.method, capacity_mw |-> g.capacity_mw,
     nearest_substation_id |-> s, nearest_substation_distance_m |-> d]

\* the rows of the right frame at minimum distance from g: every one of them
\* when several are equidistant
FirstRight(g, right) == IF right = <<>> THEN {} ELSE {1}
NearestRight(g, right) ==
    {j \in 1..Len(right) :
        \A k \in 1..Len(right) :
            Dist2(g.geometry, right[j].geometry) <= Dist2(g.geometry, right[k].geometry)}

\* gpd.sjoin_nearest(left, right, how="left", distance_col=...) and the rename:
\* one row per (left row, nearest right row); a left row without any right
\* row is kept once, with the right columns and the distance absent
RECURSIVE sjoin_nearest(_, _)
sjoin_nearest(left, right) ==
    IF left = <<>> THEN <<>>
    ELSE LET g    == left[1]
             near == Take(right, NearestRight(g, right))
             rows == IF near = <<>> THEN <<Matched(g, NaN, NaN)>>
                     ELSE [k \in 1..Len(near) |->
                              Matched(g, near[k].id,
                                      Dist2(g.geometry, near[k].geometry))]
         IN  rows \o sjoin_nearest(Tail(left), right)

Match ==
    /\ pc = "match"
    /\ generators' = sjoin_nearest(generators, substations)
    /\ pc' = "aggregate"
    /\ UNCHANGED <<arg, ret, osm, region, substations_list, generators_list,
                   substations, breakdown_cols, lines>>

\* ----------------------------------------------------- lines 93-107
\* line 93: the rows of one group; rows with an absent key form no group
Group(gens, key) == {i \in 1..Len(gens) : gens[i].nearest_substation_id = key}
GroupKeys(gens) == {gens[i].nearest_substation_id : i \in 1..Len(gens)} \ {NaN}

\* line 99: value_counts() drops the rows whose generator:method is absent
value_counts_all(gens, key, m) == Cardinality(Group(gens, key))
value_counts(gens, key, m) ==
    Cardinality({i \in Group(gens, key) : gens[i].method = m})

\* lines 99-102: one column per method value_counts() saw
OwnColumns(gens) == {gens[i].method : i \in Group(gens, gens[1].nearest_substation_id)} \ {None}
BreakdownColumns(gens) ==
    {gens[i].method : i \in {j \in 1..Len(gens) : gens[j].nearest_substation_id # NaN}}
        \ {None}

\* astype(int) on a non-negative float: the fraction is cut off
astype_int(f) == f.num \div f.den

\* line 105
CapacitySum(gens, key) == FracSum(Take([i \in 1..Len(gens) |-> gens[i].capacity_mw],
                                       Group(gens, key)))

\* lines 96-107: the three left merges on id and the fillna(0).astype(int)
Aggregated(s, gens, cols) ==
    LET has == s.id \in GroupKeys(gens)
    IN  [id |-> s.id, geometry |-> s.geometry, bundesland |-> s.bundesland,
         voltage |-> s.voltage,
         num_generators |-> IF has THEN Cardinality(Group(gens, s.id)) ELSE 0,
         breakdown |-> [c \in cols |-> IF has THEN value_counts(gens, s.id, c) ELSE 0],
         total_capacity_mw |-> IF has THEN astype_int(CapacitySum(gens, s.id)) ELSE 0]

Aggregate ==
    /\ pc = "aggregate"
    /\ breakdown_cols' = BreakdownColumns(generators)
    /\ substations' = [k \in 1..Len(substations) |->
                          Aggregated(substations[k], generators, breakdown_cols')]
    /\ pc' = "lines"
    /\ UNCHANGED <<arg, ret, osm, region, substations_list, generators_list,
                   generators, lines>>

\* ---------------------------------------------------- lines 111-113
\* line 111: the left merge of the generator rows with the substation rows on
\* nearest_substation_id = id; None stands for the right side of a generator
\* row that no substation row joins
MergeRows(g, subs) ==
    LET hit == Take(subs, {j \in 1..Len(subs) : subs[j].id = g.nearest_substation_id})
    IN  IF hit = <<>>
        THEN <<[id_x |-> g.id, id_y |-> NaN, capacity_mw |-> g.capacity_mw,
                geometry_x |-> g.geometry, geometry_y |-> <<>>]>>
        ELSE [k \in 1..Len(hit) |->
                 [id_x |-> g.id, id_y |-> hit[k].id, capacity_mw |-> g.capacity_mw,
                  geometry_x |-> g.geometry, geometry_y |-> hit[k].geometry]]

RECURSIVE merge_left(_, _)
merge_left(gens, subs) ==
    IF gens = <<>> THEN <<>>
    ELSE MergeRows(gens[1], subs) \o merge_left(Tail(gens), subs)

\* lines 112-113
Link(row) ==
    [id_x |-> row.id_x, id_y |-> row.id_y, capacity_mw |-> row.capacity_mw,
     geometry |-> <<row.geometry_x, row.geometry_y>>]

\* LineString([p, q]) raises when q is no point
Lines ==
    /\ pc = "lines"
    /\ LET merged == merge_left(generators, substations)
       IN  IF \E k \in 1..Len(merged) : merged[k].geometry_y = <<>>
           THEN /\ pc' = "failed"
                /\ lines' = merged
           ELSE /\ pc' = "export"
                /\ lines' = [k \in 1..Len(merged) |-> Link(merged[k])]
    /\ UNCHANGED <<arg, ret, osm, region, substations_list, generators_list,
                   substations, generators, breakdown_cols>>

\* ---------------------------------------------------- lines 117-148
Export ==
    /\ pc = "export"
    /\ pc' = "done"
    /\ UNCHANGED <<arg, ret, osm, region, substations_list, generators_list,
                   substations, generators, breakdown_cols, lines>>

Next ==
    \/ QueryRegion
    \/ UnionSubstations
    \/ UnionGenerators
    \/ Match
    \/ Aggregate
    \/ Lines
    \/ Export

Spec == Init /\ [][Next]_vars


\* ============================================================ claims
InputSubstations == {osm.substation[i] : i \in SubstationIds}
InputGenerators == {osm.generator[i] : i \in GeneratorIds}

\* the substations of the input that the voltage filter is to keep
Qualifying == {f \in InputSubstations :
                  parse_voltage(f.voltage) # NaN
                  /\ parse_voltage(f.voltage) >= VoltageThreshold}

AfterFilter == pc \in {"union_generators", "match", "aggregate", "lines", "export", "done"}
AfterUnion == pc \in {"match", "aggregate", "lines", "export", "done"}
AfterMatch == pc \in {"aggregate", "lines", "export", "done"}
AfterAggregate == pc \in {"lines", "export", "done"}
AfterLines == pc \in {"export", "done"}

RowsOf(g) == {i \in 1..Len(generators) : generators[i].id = g}

RECURSIVE SumOver(_, _)
SumOver(f, S) == IF S = {} THEN 0
                 ELSE LET c == CHOOSE x \in S : TRUE
                      IN  f[c] + SumOver(f, S \ {c})

\* C1: after the match every generator row names a substation that is at
\* minimum distance from the generator among all the substations of the input
\* that pass the voltage filter, whatever their region, and records that
\* minimum distance; every generator is matched when that set is not empty.
C1_NearestIsGlobalMinimum ==
    AfterMatch =>
        LET Q == Qualifying
        IN  Q # {} =>
              /\ \A g \in GeneratorIds : RowsOf(g) # {}
              /\ \A i \in 1..Len(generators) :
                    LET r == generators[i]
                    IN  /\ \E s \in Q :
                              /\ s.id = r.nearest_substation_id
                              /\ Dist2(r.geometry, s.geometry)
                                     = r.nearest_substation_distance_m
                        /\ \A s \in Q :
                              Dist2(r.geometry, s.geometry)
                                  >= r.nearest_substation_distance_m

\* a Brandenburg generator matched to a substation that only the Sachsen
\* query returned, strictly nearer than the qualifying Brandenburg substation
C1_Witness ==
    /\ AfterMatch
    /\ osm.substation[101] \in Qualifying
    /\ osm.substation[102] \in Qualifying
    /\ osm.substation[102].regions = {"Sachsen"}
    /\ \E i \in 1..Len(generators) :
          /\ generators[i].bundesland = "Brandenburg"
          /\ generators[i].nearest_substation_id = 102
          /\ generators[i].nearest_substation_distance_m = 1
          /\ Dist2(generators[i].geometry, osm.substation[101].geometry) > 1

\* C2: after the match the generators collection holds exactly one record per
\* input generator.
C2_OneRecordPerGenerator ==
    AfterMatch => \A g \in GeneratorIds : Cardinality(RowsOf(g)) = 1

\* C3: the number of links equals the number of input generators that have a
\* match, and each link carries the generator id, the id of the substation
\* the generator is matched to, and the generator's capacity.
C3_LinkCountEqualsMatched ==
    AfterLines =>
        /\ Len(lines) = Cardinality({g \in GeneratorIds :
                            \E i \in RowsOf(g) : generators[i].nearest_substation_id # NaN})
        /\ \A k \in 1..Len(lines) :
              \E i \in 1..Len(generators) :
                  /\ lines[k].id_x = generators[i].id
                  /\ lines[k].id_y = generators[i].nearest_substation_id
                  /\ lines[k].capacity_mw = generators[i].capacity_mw

\* C4: when the voltage filter leaves no substation the run does not fail:
\* every generator is left unmatched with an absent distance and no link is
\* built for it.
C4_EmptyScopeCompletes ==
    Qualifying = {} =>
        /\ pc # "failed"
        /\ AfterMatch =>
              \A i \in 1..Len(generators) :
                  /\ generators[i].nearest_substation_id = NaN
                  /\ generators[i].nearest_substation_distance_m = NaN
        /\ AfterLines => lines = <<>>

\* C5 as stated: for every substation the per-category counts add up to
\* num_generators.
C5_CategorySumEqualsCount ==
    AfterAggregate =>
        \A k \in 1..Len(substations) :
            SumOver(substations[k].breakdown, breakdown_cols)
                = substations[k].num_generators

\* C5 as amended: the per-category counts of a substation add up to the
\* number of generator records matched to it whose category tag is present;
\* that is num_generators less the matched records without a tag.
C5_CategorySumCountsTagged ==
    AfterAggregate =>
        \A k \in 1..Len(substations) :
            LET s      == substations[k]
                mine   == {i \in 1..Len(generators) :
                              generators[i].nearest_substation_id = s.id}
                tagged == {i \in mine : generators[i].method # None}
            IN  /\ SumOver(s.breakdown, DOMAIN s.breakdown) = Cardinality(tagged)
                /\ s.num_generators = Cardinality(mine)
                /\ (SumOver(s.breakdown, DOMAIN s.breakdown) = s.num_generators)
                       <=> (tagged = mine)

\* a substation with one tagged and one untagged generator matched to it
C5_Witness ==
    /\ AfterAggregate
    /\ \E k \in 1..Len(substations) :
          /\ substations[k].num_generators = 2
          /\ SumOver(substations[k].breakdown, breakdown_cols) = 1
          /\ \E i, j \in 1..Len(generators) :
                /\ generators[i].nearest_substation_id = substations[k].id
                /\ generators[j].nearest_substation_id = substations[k].id
                /\ generators[i].method = None
                /\ generators[j].method # None

\* C6: every substation's total_capacity_mw is the exact sum of the
\* capacities of the generators matched to it.
C6_TotalCapacityExact ==
    AfterAggregate =>
        \A k \in 1..Len(substations) :
            FracEq([num |-> substations[k].total_capacity_mw, den |-> 1],
                   CapacitySum(generators, substations[k].id))

\* C7: every substation record carries the same category columns, one per
\* category value of the generator population; the column of a category in
\* which the substation has no matched generator holds 0, and num_generators
\* is 0 for a substation without matched generator.
C7_SchemaStable ==
    AfterAggregate =>
        \A k \in 1..Len(substations) :
            LET s    == substations[k]
                mine == {i \in 1..Len(generators) :
                            generators[i].nearest_substation_id = s.id}
            IN  /\ DOMAIN s.breakdown = {f.method : f \in InputGenerators} \ {None}
                /\ \A c \in DOMAIN s.breakdown :
                      /\ s.breakdown[c] \in Nat
                      /\ (\A i \in mine : generators[i].method # c) => s.breakdown[c] = 0
                /\ mine = {} => s.num_generators = 0

\* two categories in the population, both at one substation, while another
\* substation holds no generator at all and has 0 in both columns
C7_Witness ==
    /\ AfterAggregate
    /\ breakdown_cols = {"wind_turbine", "photovoltaic"}
    /\ \E j, k \in 1..Len(substations) :
          /\ substations[j].num_generators = 0
          /\ DOMAIN substations[j].breakdown = breakdown_cols
          /\ \A c \in breakdown_cols : substations[j].breakdown[c] = 0
          /\ \A c \in breakdown_cols : substations[k].breakdown[c] > 0

\* C8: a substation is kept exactly when its voltage is present and at least
\* 110000 V; a dropped substation is in no output, and no generator is dropped.
C8_FilterThreshold ==
    AfterFilter =>
        LET Q    == Qualifying
            kept == {f.id : f \in Q}
        IN  /\ \A f \in InputSubstations : \A n \in f.regions :
                  (\E k \in 1..Len(substations) :
                       substations[k].id = f.id /\ substations[k].bundesland = n)
                      <=> f \in Q
            /\ \A k \in 1..Len(substations) :
                  /\ substations[k].voltage >= 110000
                  /\ substations[k].id \in kept
            /\ AfterUnion => \A g \in GeneratorIds : RowsOf(g) # {}
            /\ AfterMatch =>
                  \A i \in 1..Len(generators) :
                      generators[i].nearest_substation_id \in kept \cup {NaN}
            /\ AfterLines =>
                  \A k \in 1..Len(lines) : lines[k].id_y \in kept

\* a finished run in which the substation tagged "20" is dropped and the one
\* at exactly 110000 V is kept and linked
C8_Witness ==
    /\ pc = "done"
    /\ osm.substation[101].voltage = Str(<<"2", "0">>)
    /\ osm.substation[102].voltage = Str(<<"1", "1", "0">>)
    /\ Len(substations) = 1
    /\ substations[1].id = 102
    /\ substations[1].voltage = 110000
    /\ lines # <<>>

\* C9: parse_capacity never raises, and returns 0 for an input that holds no
\* digit.
C9_CapacityNeverRaises ==
    pc # "call_parse_capacity" =>
        /\ pc # "raised"
        /\ ret.exc = "none"
        /\ (arg = NoneStr \/ \A i \in 1..Len(arg) : ~IsDigit(arg[i])) => ret.num = 0

\* the first runs of digits of the segments of s, as pairs of positions
FirstRuns(s) ==
    {r \in (1..Len(s)) \X (1..Len(s)) :
        /\ r[1] <= r[2]
        /\ \A m \in r[1]..r[2] : IsDigit(s[m])
        /\ (r[2] = Len(s) \/ ~IsDigit(s[r[2] + 1]))
        /\ \A k \in 1..(r[1] - 1) :
              (\A m \in k..(r[1] - 1) : s[m] # ";") => ~IsDigit(s[k])}

SegmentVolts(s) ==
    {LET v == int(SubSeq(s, r[1], r[2]))
     IN  IF v < 1000 THEN v * 1000 ELSE v : r \in FirstRuns(s)}

\* C10: parse_voltage returns the largest, over the segments between ';', of
\* the first run of digits of the segment, times 1000 when below 1000; it
\* returns nothing when the input is empty or absent or holds no digit.
C10_ParseVoltage ==
    pc = "returned" =>
        /\ IF arg = NoneStr \/ arg = <<>> \/ \A i \in 1..Len(arg) : ~IsDigit(arg[i])
           THEN ret = NaN
           ELSE /\ ret \in SegmentVolts(arg)
                /\ \A v \in SegmentVolts(arg) : v <= ret
        /\ arg = Str(<<"2", "0">>) => ret = 20000
        /\ arg = Str(<<"1", "1", "0", "0", "0", "0">>) => ret = 110000
        /\ arg = Str(<<"2", "0", ";", "1", "1", "0">>) => ret = 110000
        /\ arg = Str(<<"a", "b", "c">>) => ret = NaN
        /\ arg = Str(<<"9", "9", "9">>) => ret = 999000
        /\ arg = Str(<<"1", "0", "0", "0">>) => ret = 1000

C10_Witness ==
    /\ pc = "returned"
    /\ arg = Str(<<"2", "0", ";", "1", "1", "0">>)
    /\ ret = 110000

====
